---------------------------- MODULE Spec2Model ----------------------------
(***************************************************************************)
(* ffmpeg_bitrate_stats: BitrateStats.__init__ and calculate_statistics,   *)
(* modelled from src/ffmpeg_bitrate_stats/__main__.py.                      *)
(*                                                                         *)
(* Units.  Times are integers in milliseconds, sizes in bytes.  A bitrate  *)
(* in kbit/s is the exact rational (8 * bytes) / ms, a frame rate is       *)
(* (1000 * frames) / ms.  Python's round(x, 2) and round(x, 3) are         *)
(* modelled on these exact values; a value that lies exactly half way      *)
(* between two neighbours may go either way, because which way the float   *)
(* goes depends on its binary representation (round(0.005, 2) = 0.01 but   *)
(* round(0.015, 2) = 0.01).                                                *)
(*                                                                         *)
(* Left out: the verbose flag (it only adds progress lines to stderr),     *)
(* input_file (a name that is passed through), print_statistics and main.  *)
(***************************************************************************)
EXTENDS Integers, Sequences, FiniteSets

VARIABLES
    returncode,         \* ffprobe's exit status
    pc,                 \* where the run is: new, constructed, frames, duration,
                        \* fps, maxmin, done, exit (sys.exit), raised (exception)
    args,               \* the arguments given to BitrateStats(...)
    info,               \* json.loads(stdout)["packets"]: what ffprobe reports
    stream_type, aggregation, chunk_size, dry_run,      \* self.*
    frames,             \* self.frames
    duration,           \* self.duration (ms)
    fps,                \* self.fps
    _chunks,            \* self._chunks: the cached chunk bitrate series
    aggregation_chunks, \* the local of _collect_chunks, before the len(x) > 1 filter
    max_bitrate, min_bitrate,
    avg_bitrate, avg_bitrate_over_chunks, max_bitrate_factor,
    bitrate_stats,      \* self.bitrate_stats: the Summary Record
    stderr,             \* what print_stderr wrote
    fetched,            \* TRUE once ffprobe has been run on the input
    exc                 \* the exception that ended the run, or the exit status

vars == <<returncode, pc, args, info, stream_type, aggregation, chunk_size, dry_run, frames,
          duration, fps, _chunks, aggregation_chunks, max_bitrate, min_bitrate,
          avg_bitrate, avg_bitrate_over_chunks, max_bitrate_factor,
          bitrate_stats, stderr, fetched, exc>>

(***************************************************************************)
(* Bounds of the model.                                                    *)
(***************************************************************************)
\* longest packet list ffprobe reports
MaxLen == 3
\* presentation times and durations are 0 .. MaxTick ticks
MaxTick == 2
\* longest packet list given to the chunker
MaxFrames == 5
\* longest packet list of mixed sizes
MaxSized == 4

\* one tick in milliseconds
Ticks(k) == 5 * k

(***************************************************************************)
(* Python values.  A JSON string holding a number is kept apart from the   *)
(* float it parses to: float() is the only way from one to the other.      *)
(***************************************************************************)
Absent   == [kind |-> "absent", val |-> 0]   \* the key is not in the dict
Str(v)   == [kind |-> "str", val |-> v]      \* "0.040000", as ffprobe prints it
NaN      == [kind |-> "NaN", val |-> 0]      \* the string "NaN"
Float(v) == [kind |-> "float", val |-> v]
FloatNaN == [kind |-> "nan", val |-> 0]      \* float("NaN")
None     == [kind |-> "None", val |-> 0]

IsFloat(x) == x.kind \in {"float", "nan"}
IsNumber(x) == x.kind = "float"

\* float(x) of a float or of a string
FloatOf(x) ==
    IF x.kind = "float" THEN x
    ELSE IF x = NaN THEN FloatNaN
    ELSE IF x.kind = "str" THEN Float(x.val)
    ELSE x

(***************************************************************************)
(* Exact rationals n/d with d > 0, in lowest terms; nan is float NaN.      *)
(***************************************************************************)
RECURSIVE GCD(_, _)
GCD(a, b) == IF b = 0 THEN a ELSE GCD(b, a % b)

Abs(a) == IF a < 0 THEN -a ELSE a

Frac(n, d) ==
    LET s == IF d < 0 THEN -1 ELSE 1
        g == GCD(Abs(n), Abs(d))
    IN  [n |-> (s * n) \div g, d |-> (s * d) \div g, nan |-> FALSE]

FracNaN == [n |-> 0, d |-> 1, nan |-> TRUE]
Zero == Frac(0, 1)
One == Frac(1, 1)

\* a < b as Python compares floats: FALSE as soon as one side is NaN
FracLess(a, b) == ~a.nan /\ ~b.nan /\ a.n * b.d < b.n * a.d
FracLeq(a, b) == ~a.nan /\ ~b.nan /\ a.n * b.d <= b.n * a.d
FracAdd(a, b) ==
    IF a.nan \/ b.nan THEN FracNaN ELSE Frac(a.n * b.d + b.n * a.d, a.d * b.d)
\* a / b, for b # 0
FracDiv(a, b) ==
    IF a.nan \/ b.nan THEN FracNaN ELSE Frac(a.n * b.d, a.d * b.n)

\* round(x, ndigits) of the rational n/d, as the set of integers k with
\* k / scale the rounded value (scale = 10^ndigits); both neighbours on a tie
RoundSet(n, d, scale) ==
    LET q == n * scale
        fl == q \div d
        r == q % d
    IN  IF 2 * r < d THEN {fl}
        ELSE IF 2 * r > d THEN {fl + 1}
        ELSE {fl, fl + 1}

(***************************************************************************)
(* _calculate_frame_sizes and _fix_durations                               *)
(***************************************************************************)
Has(packet_info, key) == packet_info[key] # Absent

\* next((x["duration_time"] for x in info if "duration_time" in x.keys()), "NaN"):
\* the string of the first record that has one, not its float
RECURSIVE FirstDurationFrom(_, _)
FirstDurationFrom(packets, i) ==
    IF i > Len(packets) THEN NaN
    ELSE IF Has(packets[i], "duration_time") THEN packets[i].duration_time
    ELSE FirstDurationFrom(packets, i + 1)

default_duration(packets) == FirstDurationFrom(packets, 1)

\* frame_type = "I" if packet_info["flags"] == "K_" else "Non-I"
frame_type(flags) == IF flags = "K_" THEN "I" ELSE "Non-I"

\* the dict appended to ret for one packet
Frame(packet_info, idx, default) ==
    [n          |-> idx,
     frame_type |-> frame_type(packet_info.flags),
     pts        |-> IF Has(packet_info, "pts_time")
                    THEN FloatOf(packet_info.pts_time) ELSE NaN,
     size       |-> packet_info.size.val,
     duration   |-> IF Has(packet_info, "duration_time")
                    THEN FloatOf(packet_info.duration_time) ELSE default]

Frames(packets) ==
    [i \in 1..Len(packets) |-> Frame(packets[i], i, default_duration(packets))]

PtsWarning == "Non-monotonically increasing PTS, duration/bitrate may be invalid"

\* if next_pts < curr_pts  (PtsWarnsOnEqual: the variant that tests <=)
PtsWarnsOnEqual(curr_pts, next_pts) == next_pts.val <= curr_pts.val
PtsWarns(curr_pts, next_pts) == next_pts.val < curr_pts.val

\* last_duration = next_pts - curr_pts  (PtsDeltaClamped: the variant that
\* clamps a negative delta to 0)
PtsDeltaClamped(curr_pts, next_pts) ==
    Float(IF next_pts.val < curr_pts.val THEN 0 ELSE next_pts.val - curr_pts.val)
PtsDelta(curr_pts, next_pts) == Float(next_pts.val - curr_pts.val)

\* The loop of _fix_durations from index i on (1-based), then the store into
\* ret[-1].  A pts that is the string "NaN" makes the comparison (str with
\* float) or the subtraction (str with str) raise TypeError; an empty ret
\* makes ret[-1] raise IndexError.
RECURSIVE FixDurationsFrom(_, _, _, _)
FixDurationsFrom(ret, i, last_duration, err) ==
    IF i > Len(ret) - 1
    THEN IF Len(ret) = 0
         THEN [ret |-> ret, raised |-> "IndexError", err |-> err]
         ELSE [ret    |-> [ret EXCEPT ![Len(ret)].duration = last_duration],
               raised |-> "",
               err    |-> err]
    ELSE LET curr_pts == ret[i].pts
             next_pts == ret[i + 1].pts
         IN  IF ~IsNumber(curr_pts) \/ ~IsNumber(next_pts)
             THEN [ret |-> ret, raised |-> "TypeError", err |-> err]
             ELSE FixDurationsFrom(
                      [ret EXCEPT ![i].duration = PtsDelta(curr_pts, next_pts)],
                      i + 1,
                      PtsDelta(curr_pts, next_pts),
                      IF PtsWarns(curr_pts, next_pts)
                      THEN Append(err, PtsWarning) ELSE err)

_fix_durations(ret) == FixDurationsFrom(ret, 1, None, <<>>)

\* ret after the optional repair pass, with what the pass raised and printed
Normalized(packets) ==
    IF default_duration(packets) = NaN
    THEN _fix_durations(Frames(packets))
    ELSE [ret |-> Frames(packets), raised |-> "", err |-> <<>>]

(***************************************************************************)
(* _collect_chunks: the two loops that fill aggregation_chunks             *)
(***************************************************************************)
\* One pass of the gop loop's body.  st is the loop's state.
\* (GopStepKeepsList: the variant in which a keyframe closes nothing and joins
\* the current list.)
GopStepKeepsList(st, frame) ==
    LET appended == Append(st.curr_list, frame)
    IN  IF frame.frame_type = "I" /\ st.curr_list = <<>>
        THEN [aggregation_chunks |-> st.aggregation_chunks, curr_list |-> <<frame>>]
        ELSE [aggregation_chunks |-> st.aggregation_chunks, curr_list |-> appended]
GopStep(st, frame) ==
    LET appended == IF frame.frame_type # "I"
                    THEN Append(st.curr_list, frame) ELSE st.curr_list
    IN  IF frame.frame_type = "I"
        THEN [aggregation_chunks |->
                  IF appended # <<>>
                  THEN Append(st.aggregation_chunks, appended)
                  ELSE st.aggregation_chunks,
              curr_list |-> <<frame>>]
        ELSE [aggregation_chunks |-> st.aggregation_chunks, curr_list |-> appended]

\* One pass of the time loop's body.  (TimeStepClosesLate: the variant that
\* tests agg_time <= chunk_size.  TimeStepDropsFrame: the variant that starts
\* the next chunk empty, losing the frame that closed the last one.)
TimeStepClosesLate(st, frame, size) ==
    IF st.agg_time <= size
    THEN [aggregation_chunks |-> st.aggregation_chunks,
          curr_list |-> Append(st.curr_list, frame),
          agg_time  |-> st.agg_time + FloatOf(frame.duration).val]
    ELSE [aggregation_chunks |->
              IF st.curr_list # <<>>
              THEN Append(st.aggregation_chunks, st.curr_list)
              ELSE st.aggregation_chunks,
          curr_list |-> <<frame>>,
          agg_time  |-> FloatOf(frame.duration).val]
TimeStepDropsFrame(st, frame, size) ==
    IF st.agg_time < size
    THEN [aggregation_chunks |-> st.aggregation_chunks,
          curr_list |-> Append(st.curr_list, frame),
          agg_time  |-> st.agg_time + FloatOf(frame.duration).val]
    ELSE [aggregation_chunks |->
              IF st.curr_list # <<>>
              THEN Append(st.aggregation_chunks, st.curr_list)
              ELSE st.aggregation_chunks,
          curr_list |-> <<>>,
          agg_time  |-> 0]
TimeStep(st, frame, size) ==
    IF st.agg_time < size
    THEN [aggregation_chunks |-> st.aggregation_chunks,
          curr_list |-> Append(st.curr_list, frame),
          agg_time  |-> st.agg_time + FloatOf(frame.duration).val]
    ELSE [aggregation_chunks |->
              IF st.curr_list # <<>>
              THEN Append(st.aggregation_chunks, st.curr_list)
              ELSE st.aggregation_chunks,
          curr_list |-> <<frame>>,
          agg_time  |-> FloatOf(frame.duration).val]

RECURSIVE GopFrom(_, _, _)
GopFrom(fs, i, st) ==
    IF i > Len(fs) THEN st ELSE GopFrom(fs, i + 1, GopStep(st, fs[i]))

RECURSIVE TimeFrom(_, _, _, _)
TimeFrom(fs, i, st, size) ==
    IF i > Len(fs) THEN st ELSE TimeFrom(fs, i + 1, TimeStep(st, fs[i], size), size)

\* aggregation_chunks as it stands before "calculate BR per group": the
\* loop's chunks, then the last curr_list, appended whatever it holds
AggregationChunks(fs, mode, size) ==
    LET st == IF mode = "gop"
              THEN GopFrom(fs, 1, [aggregation_chunks |-> <<>>, curr_list |-> <<>>])
              ELSE TimeFrom(fs, 1, [aggregation_chunks |-> <<>>, curr_list |-> <<>>,
                                    agg_time |-> 0], size)
    IN  Append(st.aggregation_chunks, st.curr_list)

(***************************************************************************)
(* _bitrate_for_frame_list                                                 *)
(***************************************************************************)
RECURSIVE SumSizeFrom(_, _)
SumSizeFrom(frame_list, i) ==
    IF i > Len(frame_list) THEN 0
    ELSE frame_list[i].size + SumSizeFrom(frame_list, i + 1)

\* sum(f["size"] for f in frame_list)
SumSize(frame_list) == SumSizeFrom(frame_list, 1)

\* sum(float(curr) - float(prev) for curr, prev in zip(times[1:], times)):
\* NaN as soon as one pts is the string "NaN"
RECURSIVE SumDeltaTimeFrom(_, _)
SumDeltaTimeFrom(frame_list, i) ==
    IF i > Len(frame_list) THEN Float(0)
    ELSE LET curr == FloatOf(frame_list[i].pts)
             prev == FloatOf(frame_list[i - 1].pts)
             rest == SumDeltaTimeFrom(frame_list, i + 1)
         IN  IF IsNumber(curr) /\ IsNumber(prev) /\ IsNumber(rest)
             THEN Float(curr.val - prev.val + rest.val)
             ELSE FloatNaN

sum_delta_time(frame_list) == SumDeltaTimeFrom(frame_list, 2)

RECURSIVE SumDurationFrom(_, _)
SumDurationFrom(frame_list, i) ==
    IF i > Len(frame_list) THEN 0
    ELSE FloatOf(frame_list[i].duration).val + SumDurationFrom(frame_list, i + 1)

\* ((size * 8) / 1000) / sum_delta_time, in kbit/s; the division raises
\* ZeroDivisionError when sum_delta_time is 0.0.  (BitrateOverDurations: the
\* variant that divides by the summed durations of the chunk.)
BitrateOverDurations(frame_list) ==
    Frac(8 * SumSize(frame_list), SumDurationFrom(frame_list, 1))
_bitrate_for_frame_list(frame_list) ==
    IF IsNumber(sum_delta_time(frame_list))
    THEN Frac(8 * SumSize(frame_list), sum_delta_time(frame_list).val)
    ELSE FracNaN

BitrateRaises(frame_list) == sum_delta_time(frame_list) = Float(0)

\* [_bitrate_for_frame_list(x) for x in aggregation_chunks if len(x) > 1],
\* from chunk i on: the series, or the exception the first zero span raises
RECURSIVE ChunkSeriesFrom(_, _)
ChunkSeriesFrom(groups, i) ==
    IF i > Len(groups) THEN [series |-> <<>>, raised |-> ""]
    ELSE IF Len(groups[i]) > 1
    THEN IF BitrateRaises(groups[i])
         THEN [series |-> <<>>, raised |-> "ZeroDivisionError"]
         ELSE LET rest == ChunkSeriesFrom(groups, i + 1)
              IN  [series |-> <<_bitrate_for_frame_list(groups[i])>> \o rest.series,
                   raised |-> rest.raised]
    ELSE ChunkSeriesFrom(groups, i + 1)

ChunkSeries(groups) == ChunkSeriesFrom(groups, 1)

(***************************************************************************)
(* max(), min(), np.mean() of the chunk series                             *)
(***************************************************************************)
\* max(seq): the first element, replaced by each later one that is greater
RECURSIVE MaxFrom(_, _, _)
MaxFrom(seq, i, m) ==
    IF i > Len(seq) THEN m
    ELSE MaxFrom(seq, i + 1, IF FracLess(m, seq[i]) THEN seq[i] ELSE m)

RECURSIVE MinFrom(_, _, _)
MinFrom(seq, i, m) ==
    IF i > Len(seq) THEN m
    ELSE MinFrom(seq, i + 1, IF FracLess(seq[i], m) THEN seq[i] ELSE m)

\* (PyMaxIsFirst: the variant that never replaces the first element)
PyMaxIsFirst(seq) == seq[1]
PyMax(seq) == MaxFrom(seq, 2, seq[1])
PyMin(seq) == MinFrom(seq, 2, seq[1])

\* max(self._collect_chunks()) and min(self._collect_chunks()): both raise
\* ValueError on an empty series.  (MaxMinDefaultZero: the variant that
\* answers 0 for an empty series, as max(..., default=0) would.)
MaxMinDefaultZero(series) ==
    [raised |-> "",
     max    |-> IF series = <<>> THEN Zero ELSE PyMax(series),
     min    |-> IF series = <<>> THEN Zero ELSE PyMin(series)]
MaxMin(series) ==
    IF series = <<>>
    THEN [raised |-> "ValueError", max |-> Zero, min |-> Zero]
    ELSE [raised |-> "", max |-> PyMax(series), min |-> PyMin(series)]

RECURSIVE FracSumFrom(_, _)
FracSumFrom(seq, i) ==
    IF i > Len(seq) THEN Zero ELSE FracAdd(seq[i], FracSumFrom(seq, i + 1))

\* np.mean(seq); of an empty sequence it is nan
Mean(seq) ==
    IF seq = <<>> THEN FracNaN
    ELSE FracDiv(FracSumFrom(seq, 1), Frac(Len(seq), 1))

(***************************************************************************)
(* round(x, self.rounding_factor) of the fields of the Summary Record,     *)
(* kept in thousandths; round(nan, 3) is nan                               *)
(***************************************************************************)
rounding_factor == 3

RECURSIVE Pow10(_)
Pow10(k) == IF k = 0 THEN 1 ELSE 10 * Pow10(k - 1)

Rounded(k) == [v |-> k, nan |-> FALSE]
RoundedNaN == [v |-> 0, nan |-> TRUE]

Round3Set(x) ==
    IF x.nan THEN {RoundedNaN}
    ELSE {Rounded(k) : k \in RoundSet(x.n, x.d, Pow10(rounding_factor))}

Round3SeqSet(seq) ==
    {s \in [1..Len(seq) -> UNION {Round3Set(seq[i]) : i \in 1..Len(seq)}] :
        \A i \in 1..Len(seq) : s[i] \in Round3Set(seq[i])}

(***************************************************************************)
(* The run: BitrateStats(...) and the five calls of calculate_statistics   *)
(***************************************************************************)
Raise(name) == pc' = "raised" /\ exc' = name
Exit(status) == pc' = "exit" /\ exc' = status

\* if chunk_size and chunk_size < 0
ChunkSizeRejected(size) == size # 0 /\ size < 0

\* BitrateStats.__init__
NewBitrateStats ==
    /\ pc = "new"
    /\ IF args.stream_type \notin {"audio", "video"}
       THEN /\ stderr' = Append(stderr, "Stream type must be audio/video")
            /\ Exit("SystemExit(1)")
            /\ UNCHANGED <<stream_type, aggregation, chunk_size, dry_run>>
       ELSE IF args.aggregation \notin {"time", "gop"}
       THEN /\ stderr' = Append(stderr, "Wrong aggregation type")
            /\ Exit("SystemExit(1)")
            /\ UNCHANGED <<stream_type, aggregation, chunk_size, dry_run>>
       ELSE IF args.aggregation = "gop" /\ args.stream_type = "audio"
       THEN /\ stderr' = Append(stderr, "GOP aggregation for audio does not make sense")
            /\ Exit("SystemExit(1)")
            /\ UNCHANGED <<stream_type, aggregation, chunk_size, dry_run>>
       ELSE IF ChunkSizeRejected(args.chunk_size)
       THEN /\ stderr' = Append(stderr, "Chunk size must be greater than 0")
            /\ Exit("SystemExit(1)")
            /\ UNCHANGED <<stream_type, aggregation, chunk_size, dry_run>>
       ELSE /\ stream_type' = args.stream_type
            /\ aggregation' = args.aggregation
            /\ chunk_size' = args.chunk_size
            /\ dry_run' = args.dry_run
            /\ pc' = "constructed"
            /\ UNCHANGED <<stderr, exc>>
    /\ UNCHANGED <<returncode, args, info, frames, duration, fps, _chunks,
                   aggregation_chunks, max_bitrate, min_bitrate, avg_bitrate,
                   avg_bitrate_over_chunks, max_bitrate_factor, bitrate_stats,
                   fetched>>

\* BitrateStats._calculate_frame_sizes, with run_command and _fix_durations
_calculate_frame_sizes ==
    /\ pc = "constructed"
    /\ IF dry_run
       THEN /\ stderr' = stderr \o <<"[cmd] ffprobe",
                                     "Aborting prematurely, dry-run specified">>
            /\ Exit("SystemExit(0)")
            /\ UNCHANGED <<returncode, fetched, frames>>
       ELSE /\ fetched' = TRUE
            /\ \E rc \in {0, 1} :
                 /\ returncode' = rc
                 /\ IF rc # 0
                    THEN /\ stderr' = Append(stderr, "[error] running command: ffprobe")
                         /\ Exit("SystemExit(1)")
                         /\ UNCHANGED frames
                    ELSE LET norm == Normalized(info)
                         IN  /\ stderr' = stderr \o norm.err
                             /\ IF norm.raised # ""
                                THEN Raise(norm.raised) /\ UNCHANGED frames
                                ELSE /\ frames' = norm.ret
                                     /\ pc' = "frames"
                                     /\ UNCHANGED exc
    /\ UNCHANGED <<args, info, stream_type, aggregation, chunk_size, dry_run,
                   duration, fps, _chunks, aggregation_chunks, max_bitrate,
                   min_bitrate, avg_bitrate, avg_bitrate_over_chunks,
                   max_bitrate_factor, bitrate_stats>>

\* BitrateStats._calculate_duration: round(sum(f["duration"] ...), 2).  sum()
\* starts from the int 0, so a duration that is a str or None raises TypeError.
_calculate_duration ==
    /\ pc = "frames"
    /\ IF \E i \in 1..Len(frames) : ~IsFloat(frames[i].duration)
       THEN Raise("TypeError") /\ UNCHANGED duration
       ELSE /\ \E r \in RoundSet(SumDurationFrom(frames, 1), 10, 1) : duration' = 10 * r
            /\ pc' = "duration"
            /\ UNCHANGED exc
    /\ UNCHANGED <<returncode, args, info, stream_type, aggregation, chunk_size,
                   dry_run, frames, fps, _chunks, aggregation_chunks, max_bitrate,
                   min_bitrate, avg_bitrate, avg_bitrate_over_chunks,
                   max_bitrate_factor, bitrate_stats, stderr, fetched>>

\* BitrateStats._calculate_fps: len(self.frames) / self.duration
_calculate_fps ==
    /\ pc = "duration"
    /\ IF duration = 0
       THEN Raise("ZeroDivisionError") /\ UNCHANGED fps
       ELSE /\ fps' = Frac(1000 * Len(frames), duration)
            /\ pc' = "fps"
            /\ UNCHANGED exc
    /\ UNCHANGED <<returncode, args, info, stream_type, aggregation, chunk_size,
                   dry_run, frames, duration, _chunks, aggregation_chunks,
                   max_bitrate, min_bitrate, avg_bitrate, avg_bitrate_over_chunks,
                   max_bitrate_factor, bitrate_stats, stderr, fetched>>

\* BitrateStats._calculate_max_min_bitrate, with the first (computing) call of
\* _collect_chunks; the second call finds self._chunks non-empty and returns it
_calculate_max_min_bitrate ==
    /\ pc = "fps"
    /\ LET groups == AggregationChunks(frames, aggregation, chunk_size)
           got == ChunkSeries(groups)
       IN  /\ aggregation_chunks' = groups
           /\ IF got.raised # ""
              THEN /\ Raise(got.raised)
                   /\ UNCHANGED <<_chunks, max_bitrate, min_bitrate>>
              ELSE /\ _chunks' = got.series
                   /\ IF MaxMin(got.series).raised # ""
                      THEN /\ Raise(MaxMin(got.series).raised)
                           /\ UNCHANGED <<max_bitrate, min_bitrate>>
                      ELSE /\ max_bitrate' = MaxMin(got.series).max
                           /\ min_bitrate' = MaxMin(got.series).min
                           /\ pc' = "maxmin"
                           /\ UNCHANGED exc
    /\ UNCHANGED <<returncode, args, info, stream_type, aggregation, chunk_size,
                   dry_run, frames, duration, fps, avg_bitrate,
                   avg_bitrate_over_chunks, max_bitrate_factor, bitrate_stats,
                   stderr, fetched>>

\* BitrateStats._assemble_bitrate_statistics; _collect_chunks returns the cache
_assemble_bitrate_statistics ==
    /\ pc = "maxmin"
    /\ LET avg == Frac(8 * SumSize(frames), duration)
           factor == FracDiv(max_bitrate, avg)
       IN  /\ avg_bitrate' = avg
           /\ avg_bitrate_over_chunks' = Mean(_chunks)
           /\ IF avg = Zero
              THEN /\ Raise("ZeroDivisionError")
                   /\ UNCHANGED <<max_bitrate_factor, bitrate_stats>>
              ELSE /\ max_bitrate_factor' = factor
                   /\ \E r_fps \in Round3Set(fps), r_avg \in Round3Set(avg),
                         r_mean \in Round3Set(Mean(_chunks)),
                         r_max \in Round3Set(max_bitrate),
                         r_min \in Round3Set(min_bitrate),
                         r_factor \in Round3Set(factor),
                         r_chunks \in Round3SeqSet(_chunks) :
                        bitrate_stats' =
                            [stream_type             |-> stream_type,
                             avg_fps                 |-> r_fps,
                             num_frames              |-> Len(frames),
                             avg_bitrate             |-> r_avg,
                             avg_bitrate_over_chunks |-> r_mean,
                             max_bitrate             |-> r_max,
                             min_bitrate             |-> r_min,
                             max_bitrate_factor      |-> r_factor,
                             bitrate_per_chunk       |-> r_chunks,
                             aggregation             |-> aggregation,
                             chunk_size              |-> chunk_size,
                             duration                |-> Rounded(duration)]
                   /\ pc' = "done"
                   /\ UNCHANGED exc
    /\ UNCHANGED <<returncode, args, info, stream_type, aggregation, chunk_size,
                   dry_run, frames, duration, fps, _chunks, aggregation_chunks,
                   max_bitrate, min_bitrate, stderr, fetched>>

Next ==
    \/ NewBitrateStats
    \/ _calculate_frame_sizes
    \/ _calculate_duration
    \/ _calculate_fps
    \/ _calculate_max_min_bitrate
    \/ _assemble_bitrate_statistics

(***************************************************************************)
(* Inputs                                                                  *)
(***************************************************************************)
SeqsUpTo(S, n) == UNION {[1..k -> S] : k \in 0..n}

TickStrs(lo, hi) == {Str(Ticks(k)) : k \in lo..hi}

\* the state before BitrateStats(...) is called, for the given arguments and
\* the given packet lists of the input file
InitWith(Args, Infos) ==
    /\ pc = "new"
    /\ args \in Args
    /\ info \in Infos
    /\ returncode = 0
    /\ stream_type = "" /\ aggregation = "" /\ chunk_size = 0 /\ dry_run = FALSE
    /\ frames = <<>>
    /\ duration = 0
    /\ fps = Zero
    /\ _chunks = <<>>
    /\ aggregation_chunks = <<>>
    /\ max_bitrate = Zero /\ min_bitrate = Zero
    /\ avg_bitrate = Zero /\ avg_bitrate_over_chunks = Zero
    /\ max_bitrate_factor = Zero
    /\ bitrate_stats = <<>>
    /\ stderr = <<>>
    /\ fetched = FALSE
    /\ exc = ""

\* every argument list, valid or not
AllArgs ==
    [stream_type : {"audio", "video", "subtitle"},
     aggregation : {"time", "gop", "frame"},
     chunk_size  : {Ticks(k) : k \in -1..2},
     dry_run     : BOOLEAN]

\* a packet list from its shapes: packet i is at (i - 1) * spacing ticks
Spaced(shapes, spacing) ==
    [i \in 1..Len(shapes) |->
        [flags         |-> shapes[i].flags,
         pts_time      |-> IF shapes[i].pts THEN Str(Ticks((i - 1) * spacing)) ELSE Absent,
         duration_time |-> shapes[i].duration_time,
         size          |-> shapes[i].size]]

\* packets at one tick's spacing; each is a keyframe or not and declares a
\* duration of one tick or none
SpacedInfos ==
    {Spaced(t, 1) : t \in SeqsUpTo([flags : {"K_", "__"}, pts : {TRUE},
                                    duration_time : {Absent, Str(Ticks(1))},
                                    size : {Str(1)}], MaxLen)}

Init == InitWith(AllArgs, SpacedInfos)

Spec == Init /\ [][Next]_vars

(***************************************************************************)
(* C9.  Every configuration that reaches packet fetching has a stream type *)
(* of audio or video, an aggregation of time or gop, not gop on audio, and *)
(* a chunk size greater than 0; every other configuration has been         *)
(* rejected by the constructor with exit status 1 and nothing fetched.     *)
(* The code accepts a chunk size of 0.                                     *)
(***************************************************************************)
ValidConfiguration(a) ==
    /\ a.stream_type \in {"audio", "video"}
    /\ a.aggregation \in {"time", "gop"}
    /\ ~(a.aggregation = "gop" /\ a.stream_type = "audio")
    /\ a.chunk_size > 0

ConfigurationValidated ==
    /\ fetched => ValidConfiguration(args)
    /\ pc # "new" /\ ~ValidConfiguration(args) =>
           pc = "exit" /\ exc = "SystemExit(1)" /\ ~fetched

(***************************************************************************)
(* C8.  Whenever no chunk has at least 2 packets, the run never gets past  *)
(* _calculate_max_min_bitrate and no Summary Record is assembled; the      *)
(* ValueError of max() is raised exactly on such an empty series, and      *)
(* max_bitrate and min_bitrate keep their initial values.                  *)
(***************************************************************************)
NoChunkOfTwo ==
    \A k \in 1..Len(aggregation_chunks) : Len(aggregation_chunks[k]) < 2

EmptySeriesIsFatal ==
    /\ aggregation_chunks # <<>> /\ NoChunkOfTwo =>
           /\ pc = "raised" /\ exc = "ValueError"
           /\ bitrate_stats = <<>>
           /\ _chunks = <<>>
    /\ exc = "ValueError" => aggregation_chunks # <<>> /\ NoChunkOfTwo
    /\ pc \in {"maxmin", "done"} => _chunks # <<>> /\ ~NoChunkOfTwo
    /\ bitrate_stats # <<>> => pc = "done"
    /\ Len(info) = 1 => pc \notin {"maxmin", "done"} /\ bitrate_stats = <<>>

SinglePacketIsFatal ==
    /\ Len(info) = 1
    /\ pc = "raised" /\ exc = "ValueError"
    /\ Len(frames) = 1
    /\ aggregation_chunks = <<frames>>

(***************************************************************************)
(* C4.  After normalization every packet has a numeric duration: the       *)
(* declared one, else the first declared one of the list, else the         *)
(* repaired one.  The code leaves the string of the first declared         *)
(* duration in the packets that declare none, and None in a lone packet    *)
(* that declares none.                                                     *)
(***************************************************************************)
DurationsNumeric ==
    frames # <<>> =>
        \A i \in 1..Len(frames) :
            /\ IsNumber(frames[i].duration)
            /\ Has(info[i], "duration_time") =>
                   frames[i].duration = Float(info[i].duration_time.val)
            /\ ~Has(info[i], "duration_time") /\ default_duration(info) # NaN =>
                   frames[i].duration = Float(default_duration(info).val)

(***************************************************************************)
(* Packet lists for the normalizer: each packet has a presentation time of *)
(* 0 .. MaxTick ticks or none, and declares a duration of one tick or none *)
(***************************************************************************)
TimingInfos ==
    SeqsUpTo([flags : {"__"}, pts_time : {Absent} \cup TickStrs(0, MaxTick),
              duration_time : {Absent, Str(Ticks(1))}, size : {Str(1)}], MaxLen)

DefaultArgs ==
    [stream_type : {"video"}, aggregation : {"time", "gop"},
     chunk_size : {Ticks(2)}, dry_run : {FALSE}]

InitNorm == InitWith(DefaultArgs, TimingInfos)

SpecNorm == InitNorm /\ [][Next]_vars

PtsVal(i) == info[i].pts_time.val

AllPtsPresent == \A i \in 1..Len(info) : Has(info[i], "pts_time")

\* _calculate_frame_sizes has returned the frames of the repair pass
RepairDone == frames # <<>> /\ default_duration(info) = NaN

ConstantStep(d) ==
    Len(info) >= 2 /\ \A i \in 1..(Len(info) - 1) : PtsVal(i + 1) - PtsVal(i) = d

(***************************************************************************)
(* C5.  When no record declares a duration, every packet but the last gets *)
(* the forward difference of the presentation times, taken literally, the  *)
(* last packet gets the delta computed just before it; so for a constant   *)
(* positive step d every duration is d and their sum is n * d.             *)
(***************************************************************************)
RepairIsForwardDifference ==
    RepairDone =>
        LET n == Len(frames)
        IN  /\ n = Len(info)
            /\ \A i \in 1..(n - 1) :
                   frames[i].duration = Float(PtsVal(i + 1) - PtsVal(i))
            /\ n >= 2 => frames[n].duration = Float(PtsVal(n) - PtsVal(n - 1))
            /\ \A d \in 1..Ticks(MaxTick) :
                   ConstantStep(d) =>
                       /\ \A i \in 1..n : frames[i].duration = Float(d)
                       /\ SumDurationFrom(frames, 1) = n * d

RepairedConstantStep ==
    /\ RepairDone
    /\ Len(frames) >= 3
    /\ ConstantStep(Ticks(1))
    /\ pc = "done"

(***************************************************************************)
(* C10.  During the repair pass a warning is printed for each adjacent     *)
(* pair whose presentation time decreases; the literal delta is stored     *)
(* all the same and the pass raises nothing.  The code compares with <,    *)
(* so a pair of equal presentation times prints no warning.                *)
(***************************************************************************)
WarningCount == Cardinality({k \in 1..Len(stderr) : stderr[k] = PtsWarning})

\* the repair pass has run (to its end, or to the TypeError of a missing pts)
RepairRun == fetched /\ pc # "exit" /\ default_duration(info) = NaN

\* the pairs (i, i + 1) the loop compares before it ends or raises
ComparedPairs ==
    {i \in 1..(Len(info) - 1) :
        \A j \in 1..i : Has(info[j], "pts_time") /\ Has(info[j + 1], "pts_time")}

LiteralDeltasStored ==
    AllPtsPresent /\ Len(info) >= 1 =>
        /\ frames # <<>>
        /\ \A i \in 1..(Len(info) - 1) :
               frames[i].duration = Float(PtsVal(i + 1) - PtsVal(i))

\* C10 as stated: a warning for every pair with next <= current
WarningOnNonIncreasingPts ==
    /\ RepairRun =>
           /\ WarningCount =
                  Cardinality({i \in ComparedPairs : PtsVal(i + 1) <= PtsVal(i)})
           /\ LiteralDeltasStored
    /\ ~RepairRun => WarningCount = 0

\* C10 as amended: a warning for every pair with next < current, none for
\* equal presentation times
WarningOnDecreasingPts ==
    /\ RepairRun =>
           /\ WarningCount =
                  Cardinality({i \in ComparedPairs : PtsVal(i + 1) < PtsVal(i)})
           /\ LiteralDeltasStored
    /\ ~RepairRun => WarningCount = 0

WarnedOnceForEqualAndDecreasing ==
    /\ RepairDone
    /\ \E i \in 1..(Len(info) - 1) : PtsVal(i + 1) = PtsVal(i)
    /\ \E i \in 1..(Len(info) - 1) :
           PtsVal(i + 1) < PtsVal(i) /\ frames[i].duration.val < 0
    /\ WarningCount = 1

(***************************************************************************)
(* Packet lists for the chunker.  gop mode reads only the flags: any       *)
(* pattern of keyframes, one tick apart.  time mode reads only the         *)
(* durations: declared ones of 1 .. MaxTick ticks, or none declared and    *)
(* presentation times of 0 .. MaxTick ticks in any order, which the repair *)
(* pass turns into positive, zero and negative durations.                  *)
(***************************************************************************)
GopInfos ==
    {Spaced(t, 1) : t \in SeqsUpTo([flags : {"K_", "__"}, pts : {TRUE},
                                    duration_time : {Str(Ticks(1))},
                                    size : {Str(1)}], MaxFrames)}

DeclaredInfos ==
    {Spaced(t, 1) : t \in SeqsUpTo([flags : {"__"}, pts : {TRUE},
                                    duration_time : TickStrs(1, MaxTick),
                                    size : {Str(1)}], MaxFrames)}

UndeclaredInfos ==
    SeqsUpTo([flags : {"__"}, pts_time : TickStrs(0, MaxTick),
              duration_time : {Absent}, size : {Str(1)}], MaxFrames)

GopArgs ==
    [stream_type : {"video"}, aggregation : {"gop"},
     chunk_size : {Ticks(2)}, dry_run : {FALSE}]

TimeArgs ==
    [stream_type : {"video"}, aggregation : {"time"},
     chunk_size : {Ticks(k) : k \in 0..(MaxTick + 1)}, dry_run : {FALSE}]

InitChunk ==
    \/ InitWith(GopArgs, GopInfos)
    \/ InitWith(TimeArgs, DeclaredInfos \cup UndeclaredInfos)

SpecChunk == InitChunk /\ [][Next]_vars

RECURSIVE Flatten(_)
Flatten(groups) ==
    IF groups = <<>> THEN <<>> ELSE Head(groups) \o Flatten(Tail(groups))

\* _collect_chunks has built aggregation_chunks (its last append makes it
\* non-empty)
Collected == aggregation_chunks # <<>>

(***************************************************************************)
(* C1.  Partition: in both modes the chunks built before the len(x) > 1    *)
(* filter, concatenated in order, are exactly self.frames.                 *)
(***************************************************************************)
ChunksPartitionFrames ==
    Collected => Flatten(aggregation_chunks) = frames

PartitionWithLonePacket ==
    /\ Collected
    /\ aggregation = "time"
    /\ Len(aggregation_chunks) >= 3
    /\ \E k \in 1..Len(aggregation_chunks) : Len(aggregation_chunks[k]) = 1
    /\ \E k \in 1..Len(aggregation_chunks) : Len(aggregation_chunks[k]) >= 2

(***************************************************************************)
(* C2.  Time window: in time mode with a positive chunk size, every chunk  *)
(* but the last has durations summing to at least chunk_size, and to less  *)
(* than chunk_size without its last member.                                *)
(***************************************************************************)
ChunkDuration(chunk, upto) == SumDurationFrom(SubSeq(chunk, 1, upto), 1)

TimeWindowFilled ==
    Collected /\ aggregation = "time" /\ chunk_size > 0 =>
        \A k \in 1..(Len(aggregation_chunks) - 1) :
            LET chunk == aggregation_chunks[k]
            IN  /\ ChunkDuration(chunk, Len(chunk)) >= chunk_size
                /\ ChunkDuration(chunk, Len(chunk) - 1) < chunk_size

TimeWindowOfThree ==
    /\ Collected /\ aggregation = "time" /\ chunk_size > 0
    /\ Len(aggregation_chunks) >= 2
    /\ Len(aggregation_chunks[1]) >= 3
    /\ \E i \in 1..Len(aggregation_chunks[1]) :
           aggregation_chunks[1][i].duration.val < 0

(***************************************************************************)
(* C3.  GOP boundary: in gop mode every chunk but possibly the first       *)
(* starts with a keyframe and holds no other one; the packets before the   *)
(* first keyframe form the first chunk; the last chunk is appended even    *)
(* though no keyframe follows it.                                          *)
(***************************************************************************)
IsKeyframe(frame) == frame.frame_type = "I"

GopBoundaries ==
    Collected /\ aggregation = "gop" =>
        LET n == Len(aggregation_chunks)
            last == aggregation_chunks[n]
        IN  /\ \A k \in 1..n :
                   \A i \in 2..Len(aggregation_chunks[k]) :
                       ~IsKeyframe(aggregation_chunks[k][i])
            /\ \A k \in 2..n : IsKeyframe(aggregation_chunks[k][1])
            /\ ~IsKeyframe(frames[1]) =>
                   /\ \A i \in 1..Len(aggregation_chunks[1]) :
                          aggregation_chunks[1][i] = frames[i]
                   /\ Len(aggregation_chunks[1]) < Len(frames) =>
                          IsKeyframe(frames[Len(aggregation_chunks[1]) + 1])
            /\ last # <<>> /\ last[Len(last)] = frames[Len(frames)]

GopWithLeadingNonKeyframes ==
    /\ Collected /\ aggregation = "gop"
    /\ Len(aggregation_chunks) >= 3
    /\ ~IsKeyframe(frames[1])
    /\ Len(aggregation_chunks[1]) >= 2
    /\ Len(aggregation_chunks[Len(aggregation_chunks)]) >= 2

(***************************************************************************)
(* Packet lists for the statistics: keyframes or not, of 1 or 5 bytes, one *)
(* tick apart and one tick long; at most one packet has no presentation    *)
(* time.                                                                   *)
(***************************************************************************)
SizedInfos ==
    {Spaced(t, 1) :
        t \in {u \in SeqsUpTo([flags : {"K_", "__"}, pts : BOOLEAN,
                               duration_time : {Str(Ticks(1))},
                               size : {Str(1), Str(5)}], MaxSized) :
                  Cardinality({i \in 1..Len(u) : ~u[i].pts}) <= 1}}

InitStats == InitWith(DefaultArgs, SizedInfos)

SpecStats == InitStats /\ [][Next]_vars

(***************************************************************************)
(* C6.  Factor bound.  As stated: whenever a Summary Record is produced    *)
(* with avg_bitrate > 0, max_bitrate_factor = max_bitrate / avg_bitrate is *)
(* at least 1.  It is not: max_bitrate is taken over the chunks of two or  *)
(* more packets only, each over its presentation-time span, while          *)
(* avg_bitrate is all bits over the summed durations.                      *)
(***************************************************************************)
NoNaNChunk == \A i \in 1..Len(_chunks) : ~_chunks[i].nan

\* C6 as stated, for the Summary Records whose figures are all numbers
FactorAtLeastOne ==
    pc = "done" /\ NoNaNChunk /\ FracLess(Zero, avg_bitrate) =>
        FracLeq(One, max_bitrate_factor)

(***************************************************************************)
(* C6, amended.  Whenever max and min have been taken of a chunk series    *)
(* without NaN, max_bitrate is at least every chunk bitrate and            *)
(* min_bitrate at most; so max_bitrate is at least the mean of the series, *)
(* avg_bitrate_over_chunks, and their ratio is at least 1 when that mean   *)
(* is positive.                                                            *)
(***************************************************************************)
MaxBoundsChunkSeries ==
    pc \in {"maxmin", "done"} /\ NoNaNChunk =>
        /\ \A i \in 1..Len(_chunks) :
               FracLeq(_chunks[i], max_bitrate) /\ FracLeq(min_bitrate, _chunks[i])
        /\ \E i \in 1..Len(_chunks) : max_bitrate = _chunks[i]
        /\ pc = "done" =>
               /\ FracLeq(avg_bitrate_over_chunks, max_bitrate)
               /\ FracLess(Zero, avg_bitrate_over_chunks) =>
                      FracLeq(One, FracDiv(max_bitrate, avg_bitrate_over_chunks))

MaxOverTwoChunks ==
    /\ pc = "done" /\ NoNaNChunk
    /\ Len(_chunks) >= 2
    /\ FracLess(_chunks[1], _chunks[2])
    /\ FracLess(Zero, avg_bitrate)
    /\ FracLess(avg_bitrate_over_chunks, max_bitrate)

(***************************************************************************)
(* Scenario A and its neighbours: uniform streams of up to 10 packets, the *)
(* first a keyframe, each as long as the spacing.                          *)
(***************************************************************************)
Uniform(n, bytes, ms) ==
    [i \in 1..n |->
        [flags         |-> IF i = 1 THEN "K_" ELSE "__",
         pts_time      |-> Str((i - 1) * ms),
         duration_time |-> Str(ms),
         size          |-> Str(bytes)]]

UniformInfos == {Uniform(n, bytes, ms) : n \in 0..10, bytes \in {500, 1000}, ms \in {50, 100}}

UniformArgs ==
    [stream_type : {"video"}, aggregation : {"time", "gop"},
     chunk_size : {250, 500}, dry_run : {FALSE}]

InitUniform == InitWith(UniformArgs, UniformInfos)

SpecUniform == InitUniform /\ [][Next]_vars

ScenarioA ==
    /\ info = Uniform(10, 1000, 100)
    /\ args = [stream_type |-> "video", aggregation |-> "time",
               chunk_size |-> 500, dry_run |-> FALSE]

ChunkLengths == [k \in 1..Len(aggregation_chunks) |-> Len(aggregation_chunks[k])]

\* the Summary Record of Scenario A but for its chunk figures (thousandths)
ScenarioAGlobalFigures ==
    /\ bitrate_stats.duration = Rounded(1000)
    /\ bitrate_stats.avg_fps = Rounded(10000)
    /\ bitrate_stats.num_frames = 10
    /\ bitrate_stats.avg_bitrate = Rounded(80000)
    /\ ChunkLengths = <<5, 5>>

(***************************************************************************)
(* C7.  Scenario A as stated: two chunks of 5 packets at 80.0 kbit/s each, *)
(* min_bitrate = max_bitrate = 80.0 and max_bitrate_factor = 1.0.          *)
(***************************************************************************)
ScenarioAAsStated ==
    /\ ScenarioA => pc # "raised"
    /\ ScenarioA /\ pc = "done" =>
           /\ ScenarioAGlobalFigures
           /\ bitrate_stats.bitrate_per_chunk = <<Rounded(80000), Rounded(80000)>>
           /\ bitrate_stats.min_bitrate = Rounded(80000)
           /\ bitrate_stats.max_bitrate = Rounded(80000)
           /\ bitrate_stats.max_bitrate_factor = Rounded(1000)

(***************************************************************************)
(* C7, amended.  Scenario A: duration 1.0, avg_fps 10.0, avg_bitrate 80.0, *)
(* two chunks of 5 packets at 100.0 kbit/s each (5000 bytes over the 0.4 s *)
(* between the first and the last packet of the chunk), min_bitrate =      *)
(* max_bitrate = avg_bitrate_over_chunks = 100.0, max_bitrate_factor 1.25. *)
(***************************************************************************)
ScenarioAAsComputed ==
    /\ ScenarioA => pc # "raised"
    /\ ScenarioA /\ pc = "done" =>
           /\ ScenarioAGlobalFigures
           /\ bitrate_stats.bitrate_per_chunk = <<Rounded(100000), Rounded(100000)>>
           /\ bitrate_stats.min_bitrate = Rounded(100000)
           /\ bitrate_stats.max_bitrate = Rounded(100000)
           /\ bitrate_stats.avg_bitrate_over_chunks = Rounded(100000)
           /\ bitrate_stats.max_bitrate_factor = Rounded(1250)

ScenarioADone == ScenarioA /\ pc = "done"

=============================================================================
